---- MODULE Spec2Model ----
(***************************************************************************)
(* Model of Projeto_de_Orcamento_de_Aluguel.py: the RentalQuote class      *)
(* (base_rent, compute_monthly_rent, contract_installment_value,           *)
(* total_monthly_with_contract, to_csv) and the interactive main().        *)
(*                                                                         *)
(* Money is held in centavos (1/100 of a real): 700.0 is 70000.  Every     *)
(* float the program computes on the inputs modelled here is a whole       *)
(* number of centavos before rounding, or 2000.0/n, so round(x, 2) is      *)
(* modelled exactly as rounding a rational to the nearest centavo.         *)
(***************************************************************************)
EXTENDS Integers, Sequences, FiniteSets, TLC

VARIABLES
    mode,        \* "api": a caller uses a RentalQuote directly; "main": a run of main()
    pc,          \* position of the single thread of control
    quote,       \* the RentalQuote instance (its dataclass fields)
    rentRet,     \* outcome of the last call of compute_monthly_rent
    ret,         \* the last call of another computing method, and its outcome
    csvRet,      \* outcome of the last call of to_csv
    csv,         \* locals of the running to_csv: mensalidade, contrato_parcela, installments, m
    dirExists,   \* whether the directory 'output' exists
    file,        \* the file at output/<filename>: whether it exists and the rows it holds
    inp,         \* locals of main(): tipo, bedrooms, garage, ...
    lastAnswer,  \* the line the last input() call returned, and how the prompt took it
    shown        \* the summary main() printed

vars == <<mode, pc, quote, rentRet, ret, csvRet, csv, dirExists, file,
          inp, lastAnswer, shown>>

(***************************************************************************)
(* Bounds of the model.                                                    *)
(***************************************************************************)
MaxBedrooms == 2        \* bedrooms range over 1..MaxBedrooms
MaxExtra == 2           \* studio_extra_vagas up to MaxExtra ...
NegExtra == 30          \* ... and the negative value -NegExtra
MinInstallments == 1    \* contract_installments from -MinInstallments ...
MaxInstallments == 7    \* ... to MaxInstallments
MaxAnswer == 6          \* integers typed at a prompt range over -1..MaxAnswer

(***************************************************************************)
(* Program constants, in centavos.                                         *)
(***************************************************************************)
CONTRACT_VALUE == 200000
BaseApartamento == 70000
BaseCasa == 90000
BaseEstudio == 120000
Add2QuartosApartamento == 20000
Add2QuartosCasa == 25000
AddGaragem == 30000
AddPacoteVagas == 25000
AddVagaExtra == 6000
DescontoPct == 95       \* rent * 0.95
MaxParcelas == 5        \* min(self.contract_installments, 5)
Meses == 12             \* range(1, 13)

(***************************************************************************)
(* Outcomes of a call: a returned value or a raised exception.             *)
(***************************************************************************)
NoRet == [status |-> "none", val |-> 0]
Ok(v) == [status |-> "ok", val |-> v]
Raise(e) == [status |-> e, val |-> 0]
NoCall == [op |-> "none", status |-> "none", val |-> 0]
Returned(op, r) == [op |-> op, status |-> r.status, val |-> r.val]

Max(a, b) == IF a >= b THEN a ELSE b
Min(a, b) == IF a <= b THEN a ELSE b
Abs(a) == IF a < 0 THEN 0 - a ELSE a

\* round(num/den, 2) for an amount of num/den centavos, den > 0: the nearest
\* centavo, a tie going to the even one (Python's round).
Round2(num, den) ==
    LET q == num \div den
        r == num % den
    IN  IF 2 * r < den THEN q
        ELSE IF 2 * r > den THEN q + 1
        ELSE IF q % 2 = 0 THEN q ELSE q + 1

\* str.lower() on the strings the model uses.
Lower(s) ==
    CASE s = "Casa" -> "casa"
      [] s = "APARTAMENTO" -> "apartamento"
      [] s = "S" -> "s"
      [] s = "Sim" -> "sim"
      [] s = "N" -> "n"
      [] OTHER -> s

(***************************************************************************)
(* RentalQuote's methods.                                                  *)
(***************************************************************************)
\* Faulty variant of base_rent: an unknown type falls through to a rent of 0.
base_rent_default_zero(q) ==
    LET t == Lower(q.property_type)
    IN  IF t = "apartamento" THEN Ok(BaseApartamento)
        ELSE IF t = "casa" THEN Ok(BaseCasa)
        ELSE IF t = "estudio" THEN Ok(BaseEstudio)
        ELSE Ok(0)

base_rent(q) ==
    LET t == Lower(q.property_type)
    IN  IF t = "apartamento" THEN Ok(BaseApartamento)
        ELSE IF t = "casa" THEN Ok(BaseCasa)
        ELSE IF t = "estudio" THEN Ok(BaseEstudio)
        ELSE Raise("ValueError")

\* Faulty variant of compute_monthly_rent: the discount is taken before the
\* garage is added.
compute_monthly_rent_discount_before_garage(q) ==
    LET b == base_rent(q)
        t == Lower(q.property_type)
        r0 == b.val
        r1 == IF t = "apartamento" /\ q.bedrooms = 2 THEN r0 + Add2QuartosApartamento ELSE r0
        r2 == IF t = "casa" /\ q.bedrooms = 2 THEN r1 + Add2QuartosCasa ELSE r1
        d  == IF t = "apartamento" /\ ~q.has_children THEN Round2(r2 * DescontoPct, 100) ELSE r2
        r3 == IF t \in {"apartamento", "casa"} /\ q.garage THEN d + AddGaragem ELSE d
        r4 == IF t = "estudio" /\ q.studio_base_parking
              THEN IF q.studio_extra_vagas > 0
                   THEN r3 + AddPacoteVagas + AddVagaExtra * q.studio_extra_vagas
                   ELSE r3 + AddPacoteVagas
              ELSE r3
    IN  IF b.status # "ok" THEN b ELSE Ok(Round2(r4, 1))

\* Faulty variant of compute_monthly_rent: the discount does not ask for the
\* type, so a house or studio without children gets it too.
compute_monthly_rent_discount_any_type(q) ==
    LET b == base_rent(q)
        t == Lower(q.property_type)
        r0 == b.val
        r1 == IF t = "apartamento" /\ q.bedrooms = 2 THEN r0 + Add2QuartosApartamento ELSE r0
        r2 == IF t = "casa" /\ q.bedrooms = 2 THEN r1 + Add2QuartosCasa ELSE r1
        r3 == IF t \in {"apartamento", "casa"} /\ q.garage THEN r2 + AddGaragem ELSE r2
        r4 == IF t = "estudio" /\ q.studio_base_parking
              THEN IF q.studio_extra_vagas > 0
                   THEN r3 + AddPacoteVagas + AddVagaExtra * q.studio_extra_vagas
                   ELSE r3 + AddPacoteVagas
              ELSE r3
    IN  IF b.status # "ok" THEN b
        ELSE IF ~q.has_children
             THEN Ok(Round2(r4 * DescontoPct, 100))
             ELSE Ok(Round2(r4, 1))

compute_monthly_rent(q) ==
    LET b == base_rent(q)
        t == Lower(q.property_type)
        r0 == b.val
        r1 == IF t = "apartamento" /\ q.bedrooms = 2 THEN r0 + Add2QuartosApartamento ELSE r0
        r2 == IF t = "casa" /\ q.bedrooms = 2 THEN r1 + Add2QuartosCasa ELSE r1
        r3 == IF t \in {"apartamento", "casa"} /\ q.garage THEN r2 + AddGaragem ELSE r2
        r4 == IF t = "estudio" /\ q.studio_base_parking
              THEN IF q.studio_extra_vagas > 0
                   THEN r3 + AddPacoteVagas + AddVagaExtra * q.studio_extra_vagas
                   ELSE r3 + AddPacoteVagas
              ELSE r3
    IN  IF b.status # "ok" THEN b
        ELSE IF t = "apartamento" /\ ~q.has_children
             THEN Ok(Round2(r4 * DescontoPct, 100))
             ELSE Ok(Round2(r4, 1))

\* Faulty variant of contract_installment_value: the count is not capped at 5.
contract_installment_value_no_upper_clamp(q) ==
    LET n == Max(1, q.contract_installments)
    IN  Ok(Round2(CONTRACT_VALUE, n))

\* Faulty variant of contract_installment_value: the quotient is cut to the
\* centavo below instead of rounded.
contract_installment_value_truncates(q) ==
    LET n == Max(1, Min(q.contract_installments, MaxParcelas))
    IN  Ok(CONTRACT_VALUE \div n)

contract_installment_value(q) ==
    LET n == Max(1, Min(q.contract_installments, MaxParcelas))
    IN  Ok(Round2(CONTRACT_VALUE, n))

total_monthly_with_contract(q) ==
    LET r == compute_monthly_rent(q)
    IN  IF r.status # "ok" THEN r
        ELSE Ok(Round2(r.val + contract_installment_value(q).val, 1))

(***************************************************************************)
(* What csv.writer puts in a cell.  A cell is text (the header names),     *)
(* str(m) for the month, or f'{x:.2f}' for an amount: the sign, the whole  *)
(* part and exactly two decimal digits.                                    *)
(***************************************************************************)
TextCell(s) == [tag |-> "text", txt |-> s, neg |-> FALSE, whole |-> 0, d1 |-> 0, d2 |-> 0]
IntCell(n) == [tag |-> "int", txt |-> "", neg |-> n < 0, whole |-> Abs(n), d1 |-> 0, d2 |-> 0]
Fmt2(c) ==
    [tag |-> "dec", txt |-> "", neg |-> c < 0,
     whole |-> Abs(c) \div 100, d1 |-> (Abs(c) % 100) \div 10, d2 |-> Abs(c) % 10]

Header ==
    <<TextCell("mes"), TextCell("mensalidade"), TextCell("contrato_parcela"),
      TextCell("total_no_mes")>>

\* Faulty variant of csv_row: the portion stops one month early (m < installments).
csv_row_off_by_one(c, m) ==
    LET contrato_here == IF m < c.installments THEN c.contrato_parcela ELSE 0
        total == Round2(c.mensalidade + contrato_here, 1)
    IN  <<IntCell(m), Fmt2(c.mensalidade), Fmt2(contrato_here), Fmt2(total)>>

\* The row to_csv writes for month m, from its locals c.
csv_row(c, m) ==
    LET contrato_here == IF m <= c.installments THEN c.contrato_parcela ELSE 0
        total == Round2(c.mensalidade + contrato_here, 1)
    IN  <<IntCell(m), Fmt2(c.mensalidade), Fmt2(contrato_here), Fmt2(total)>>

NoFile == [exists |-> FALSE, rows |-> <<>>]
StaleFile == [exists |-> TRUE, rows |-> <<(<<TextCell("conteudo anterior")>>)>>]
\* open(filepath, mode='w'): the file is created, or truncated if it exists.
Truncated == [exists |-> TRUE, rows |-> <<>>]

NoCsv == [mensalidade |-> 0, contrato_parcela |-> 0, installments |-> 0, m |-> 0]
NoInp ==
    [tipo |-> "", bedrooms |-> 0, garage |-> FALSE, studio_base_parking |-> FALSE,
     studio_extra_vagas |-> 0, has_children |-> FALSE, contract_installments |-> 0]
NoAnswer == [prompt |-> "", txt |-> "", isInt |-> FALSE, val |-> 0, pad |-> FALSE, taken |-> "none"]
NoShown == [printed |-> FALSE, mensal |-> Fmt2(0), parcelas |-> 0, parcela |-> Fmt2(0), meses |-> 0]
NoQuote ==
    [property_type |-> "", bedrooms |-> 0, garage |-> FALSE, studio_base_parking |-> FALSE,
     studio_extra_vagas |-> 0, has_children |-> FALSE, contract_installments |-> 0]

(***************************************************************************)
(* Configurations a direct caller constructs a RentalQuote with.  The      *)
(* constructor checks nothing, so the type may be unknown or capitalised   *)
(* and the counts out of range.  RentConfigs varies every field            *)
(* compute_monthly_rent reads, with contract_installments at its default;  *)
(* InstConfigs varies contract_installments, with the bedrooms, garage and *)
(* studio fields at their defaults.                                        *)
(***************************************************************************)
Types == {"apartamento", "casa", "estudio", "Casa", "loft"}
ExtraVals == {0 - NegExtra} \cup (0 .. MaxExtra)
InstallmentVals == (0 - MinInstallments) .. MaxInstallments

RentConfigs ==
    [property_type : Types, bedrooms : 1 .. MaxBedrooms, garage : BOOLEAN,
     studio_base_parking : BOOLEAN, studio_extra_vagas : ExtraVals,
     has_children : BOOLEAN, contract_installments : {1}]
InstConfigs ==
    [property_type : Types, bedrooms : {1}, garage : {FALSE},
     studio_base_parking : {FALSE}, studio_extra_vagas : {0},
     has_children : BOOLEAN, contract_installments : InstallmentVals]
Configs == RentConfigs \cup InstConfigs

\* The file system before the first call: no directory, an empty directory,
\* or a file of an earlier run under the name to_csv is given.
FsBefore ==
    {<<FALSE, NoFile>>, <<TRUE, NoFile>>, <<TRUE, StaleFile>>}

Init ==
    /\ mode = "api"
    /\ pc = "ready"
    /\ quote \in Configs
    /\ rentRet = NoRet /\ ret = NoCall /\ csvRet = NoRet
    /\ csv = NoCsv
    /\ \E fs \in FsBefore : dirExists = fs[1] /\ file = fs[2]
    /\ inp = NoInp /\ lastAnswer = NoAnswer /\ shown = NoShown

(***************************************************************************)
(* Calls of the four methods that only compute.                            *)
(***************************************************************************)
CallBaseRent ==
    /\ mode = "api" /\ pc = "ready"
    /\ ret' = Returned("base_rent", base_rent(quote))
    /\ UNCHANGED <<mode, pc, quote, rentRet, csvRet, csv, dirExists, file,
                   inp, lastAnswer, shown>>

\* Faulty variant of the call of compute_monthly_rent: the method stores the
\* lower-cased type back into the object.
CallComputeMonthlyRent_normalises ==
    /\ mode = "api" /\ pc = "ready"
    /\ rentRet' = compute_monthly_rent(quote)
    /\ quote' = [quote EXCEPT !.property_type = Lower(@)]
    /\ UNCHANGED <<mode, pc, ret, csvRet, csv, dirExists, file,
                   inp, lastAnswer, shown>>

CallComputeMonthlyRent ==
    /\ mode = "api" /\ pc = "ready"
    /\ rentRet' = compute_monthly_rent(quote)
    /\ UNCHANGED <<mode, pc, quote, ret, csvRet, csv, dirExists, file,
                   inp, lastAnswer, shown>>

CallContractInstallmentValue ==
    /\ mode = "api" /\ pc = "ready"
    /\ ret' = Returned("contract_installment_value", contract_installment_value(quote))
    /\ UNCHANGED <<mode, pc, quote, rentRet, csvRet, csv, dirExists, file,
                   inp, lastAnswer, shown>>

CallTotalMonthlyWithContract ==
    /\ mode = "api" /\ pc = "ready"
    /\ ret' = Returned("total_monthly_with_contract", total_monthly_with_contract(quote))
    /\ UNCHANGED <<mode, pc, quote, rentRet, csvRet, csv, dirExists, file,
                   inp, lastAnswer, shown>>

(***************************************************************************)
(* to_csv, one action per statement that can fail or touches the file      *)
(* system.  An OSError of makedirs, open or a write is the environment's   *)
(* choice.  to_csv is entered from "ready" (a direct call) or from         *)
(* "main_to_csv" (main's call), and leaves to CsvLeave(outcome).           *)
(***************************************************************************)
CsvLeave(r) ==
    IF mode = "api" THEN "ready"
    ELSE IF r.status = "ok" THEN "main_print_path" ELSE "main_aborted"

\* lines 102-108: the two values and the clamped count are computed first.
ToCsvBegin ==
    /\ pc \in {"ready", "main_to_csv"}
    /\ LET r == compute_monthly_rent(quote)
       IN  IF r.status # "ok"
           THEN /\ csvRet' = r
                /\ pc' = CsvLeave(r)
                /\ csv' = NoCsv
           ELSE /\ csvRet' = NoRet
                /\ pc' = "csv_makedirs"
                /\ csv' = [mensalidade |-> r.val,
                           contrato_parcela |-> contract_installment_value(quote).val,
                           installments |-> Max(1, Min(quote.contract_installments, MaxParcelas)),
                           m |-> 0]
    /\ UNCHANGED <<mode, quote, rentRet, ret, dirExists, file,
                   inp, lastAnswer, shown>>

\* line 112: os.makedirs(out_dir, exist_ok=True)
ToCsvMakedirs ==
    /\ pc = "csv_makedirs"
    /\ dirExists' = TRUE
    /\ pc' = "csv_open"
    /\ UNCHANGED <<mode, quote, rentRet, ret, csvRet, csv, file,
                   inp, lastAnswer, shown>>

ToCsvMakedirsFails ==
    /\ pc = "csv_makedirs"
    /\ ~dirExists
    /\ csvRet' = Raise("OSError")
    /\ pc' = CsvLeave(Raise("OSError"))
    /\ csv' = NoCsv
    /\ UNCHANGED <<mode, quote, rentRet, ret, dirExists, file,
                   inp, lastAnswer, shown>>

\* line 115: open(filepath, mode='w')
ToCsvOpen ==
    /\ pc = "csv_open"
    /\ file' = Truncated
    /\ pc' = "csv_header"
    /\ UNCHANGED <<mode, quote, rentRet, ret, csvRet, csv, dirExists,
                   inp, lastAnswer, shown>>

ToCsvOpenFails ==
    /\ pc = "csv_open"
    /\ csvRet' = Raise("OSError")
    /\ pc' = CsvLeave(Raise("OSError"))
    /\ csv' = NoCsv
    /\ UNCHANGED <<mode, quote, rentRet, ret, dirExists, file,
                   inp, lastAnswer, shown>>

\* line 117: the header row
ToCsvWriteHeader ==
    /\ pc = "csv_header"
    /\ file' = [file EXCEPT !.rows = Append(@, Header)]
    /\ csv' = [csv EXCEPT !.m = 1]
    /\ pc' = "csv_row"
    /\ UNCHANGED <<mode, quote, rentRet, ret, csvRet, dirExists,
                   inp, lastAnswer, shown>>

\* lines 118-121: one turn of the loop over range(1, 13)
ToCsvWriteRow ==
    /\ pc = "csv_row"
    /\ csv.m <= Meses
    /\ file' = [file EXCEPT !.rows = Append(@, csv_row(csv, csv.m))]
    /\ csv' = [csv EXCEPT !.m = @ + 1]
    /\ UNCHANGED <<mode, pc, quote, rentRet, ret, csvRet, dirExists,
                   inp, lastAnswer, shown>>

\* a writerow (lines 117, 121) raises: the with block closes the file as it is
ToCsvWriteFails ==
    /\ \/ pc = "csv_header"
       \/ pc = "csv_row" /\ csv.m <= Meses
    /\ csvRet' = Raise("OSError")
    /\ pc' = CsvLeave(Raise("OSError"))
    /\ csv' = NoCsv
    /\ UNCHANGED <<mode, quote, rentRet, ret, dirExists, file,
                   inp, lastAnswer, shown>>

\* Faulty variant of the return of to_csv: the loop ends one month early
\* (range(1, 12)).
ToCsvReturn_early ==
    /\ pc = "csv_row"
    /\ csv.m >= Meses
    /\ csvRet' = Ok(0)
    /\ pc' = CsvLeave(Ok(0))
    /\ csv' = NoCsv
    /\ UNCHANGED <<mode, quote, rentRet, ret, dirExists, file,
                   inp, lastAnswer, shown>>

\* line 123: the loop is over, the file is closed and the path returned
ToCsvReturn ==
    /\ pc = "csv_row"
    /\ csv.m > Meses
    /\ csvRet' = Ok(0)
    /\ pc' = CsvLeave(Ok(0))
    /\ csv' = NoCsv
    /\ UNCHANGED <<mode, quote, rentRet, ret, dirExists, file,
                   inp, lastAnswer, shown>>

to_csv ==
    \/ ToCsvBegin
    \/ ToCsvMakedirs
    \/ ToCsvMakedirsFails
    \/ ToCsvOpen
    \/ ToCsvOpenFails
    \/ ToCsvWriteHeader
    \/ ToCsvWriteRow
    \/ ToCsvWriteFails
    \/ ToCsvReturn

Next ==
    \/ CallBaseRent
    \/ CallComputeMonthlyRent
    \/ CallContractInstallmentValue
    \/ CallTotalMonthlyWithContract
    \/ to_csv

Spec == Init /\ [][Next]_vars

(***************************************************************************)
(* The prompts of main().  A line typed at a prompt is either the decimal  *)
(* text of an integer (isInt, val) or some other text (txt), possibly      *)
(* with blanks around it (pad).                                            *)
(***************************************************************************)
Texts == {"", "s", "sim", "n", "nao", "não", "S", "Sim", "N", "talvez", "1.5"}
Answers ==
    [txt : {""}, isInt : {TRUE}, val : -1 .. MaxAnswer, pad : BOOLEAN]
        \cup [txt : Texts, isInt : {FALSE}, val : {0}, pad : BOOLEAN]

\* str.strip()
Strip(a) == [a EXCEPT !.pad = FALSE]
IsBlank(a) == ~a.isInt /\ a.txt = ""

None == [some |-> FALSE, v |-> 0]
Some(n) == [some |-> TRUE, v |-> n]

\* What a prompt does with a line: "invalid" (it asks again), "value" (it
\* returns v) or "default" (le_inteiro returns its default v).
pergunta_sim_nao(a) ==
    LET r == Strip(a)
        t == Lower(r.txt)
    IN  IF ~r.isInt /\ t \in {"s", "sim"} THEN [taken |-> "value", v |-> TRUE]
        ELSE IF ~r.isInt /\ t \in {"n", "nao", "não"} THEN [taken |-> "value", v |-> FALSE]
        ELSE [taken |-> "invalid", v |-> FALSE]

escolhe_tipo(a) ==
    LET ch == Strip(a)
    IN  IF ch.isInt /\ ch.val = 1 THEN [taken |-> "value", v |-> "apartamento"]
        ELSE IF ch.isInt /\ ch.val = 2 THEN [taken |-> "value", v |-> "casa"]
        ELSE IF ch.isInt /\ ch.val = 3 THEN [taken |-> "value", v |-> "estudio"]
        ELSE [taken |-> "invalid", v |-> ""]

\* Faulty variant of le_inteiro: after the out-of-range message the loop does
\* not continue, and the value is returned.
le_inteiro_no_continue(a, default, min_v, max_v) ==
    LET r == Strip(a)
    IN  IF IsBlank(r) THEN [taken |-> "default", v |-> default]
        ELSE IF ~r.isInt THEN [taken |-> "invalid", v |-> 0]
        ELSE [taken |-> "value", v |-> r.val]

\* Faulty variant of le_inteiro: max_v is not looked at.
le_inteiro_no_max(a, default, min_v, max_v) ==
    LET r == Strip(a)
    IN  IF IsBlank(r) THEN [taken |-> "default", v |-> default]
        ELSE IF ~r.isInt THEN [taken |-> "invalid", v |-> 0]
        ELSE IF min_v.some /\ r.val < min_v.v
             THEN [taken |-> "invalid", v |-> 0]
             ELSE [taken |-> "value", v |-> r.val]

le_inteiro(a, default, min_v, max_v) ==
    LET r == Strip(a)
    IN  IF IsBlank(r) THEN [taken |-> "default", v |-> default]
        ELSE IF ~r.isInt THEN [taken |-> "invalid", v |-> 0]
        ELSE IF (min_v.some /\ r.val < min_v.v) \/ (max_v.some /\ r.val > max_v.v)
             THEN [taken |-> "invalid", v |-> 0]
             ELSE [taken |-> "value", v |-> r.val]

Heard(p, a, how) ==
    [prompt |-> p, txt |-> a.txt, isInt |-> a.isInt, val |-> a.val, pad |-> a.pad,
     taken |-> how]

\* lines 167-170: main's locals before the first question that may set them
MainInp ==
    [tipo |-> "", bedrooms |-> 1, garage |-> FALSE, studio_base_parking |-> FALSE,
     studio_extra_vagas |-> 0, has_children |-> FALSE, contract_installments |-> 0]

MainInit ==
    /\ mode = "main"
    /\ pc = "ask_tipo"
    /\ quote = NoQuote
    /\ rentRet = NoRet /\ ret = NoCall /\ csvRet = NoRet
    /\ csv = NoCsv
    /\ \E fs \in FsBefore : dirExists = fs[1] /\ file = fs[2]
    /\ inp = MainInp /\ lastAnswer = NoAnswer /\ shown = NoShown

\* line 166
AskTipo(a) ==
    /\ mode = "main" /\ pc = "ask_tipo"
    /\ LET r == escolhe_tipo(a)
       IN  /\ lastAnswer' = Heard(pc, a, r.taken)
           /\ IF r.taken = "invalid" THEN UNCHANGED <<pc, inp>>
              ELSE /\ inp' = [inp EXCEPT !.tipo = r.v]
                   /\ pc' = IF r.v \in {"apartamento", "casa"} THEN "ask_bedrooms"
                            ELSE "ask_parking"
    /\ UNCHANGED <<mode, quote, rentRet, ret, csvRet, csv, dirExists, file, shown>>

\* line 173
AskBedrooms(a) ==
    /\ mode = "main" /\ pc = "ask_bedrooms"
    /\ LET r == le_inteiro(a, 1, Some(1), Some(2))
       IN  /\ lastAnswer' = Heard(pc, a, r.taken)
           /\ IF r.taken = "invalid" THEN UNCHANGED <<pc, inp>>
              ELSE /\ inp' = [inp EXCEPT !.bedrooms = r.v]
                   /\ pc' = "ask_garage"
    /\ UNCHANGED <<mode, quote, rentRet, ret, csvRet, csv, dirExists, file, shown>>

\* line 174
AskGarage(a) ==
    /\ mode = "main" /\ pc = "ask_garage"
    /\ LET r == pergunta_sim_nao(a)
       IN  /\ lastAnswer' = Heard(pc, a, r.taken)
           /\ IF r.taken = "invalid" THEN UNCHANGED <<pc, inp>>
              ELSE /\ inp' = [inp EXCEPT !.garage = r.v]
                   /\ pc' = "ask_children"
    /\ UNCHANGED <<mode, quote, rentRet, ret, csvRet, csv, dirExists, file, shown>>

\* lines 176-177
AskParking(a) ==
    /\ mode = "main" /\ pc = "ask_parking"
    /\ LET r == pergunta_sim_nao(a)
       IN  /\ lastAnswer' = Heard(pc, a, r.taken)
           /\ IF r.taken = "invalid" THEN UNCHANGED <<pc, inp>>
              ELSE /\ inp' = [inp EXCEPT !.studio_base_parking = r.v]
                   /\ pc' = IF r.v THEN "ask_extra" ELSE "ask_children"
    /\ UNCHANGED <<mode, quote, rentRet, ret, csvRet, csv, dirExists, file, shown>>

\* line 178
AskExtra(a) ==
    /\ mode = "main" /\ pc = "ask_extra"
    /\ LET r == le_inteiro(a, 0, Some(0), None)
       IN  /\ lastAnswer' = Heard(pc, a, r.taken)
           /\ IF r.taken = "invalid" THEN UNCHANGED <<pc, inp>>
              ELSE /\ inp' = [inp EXCEPT !.studio_extra_vagas = r.v]
                   /\ pc' = "ask_children"
    /\ UNCHANGED <<mode, quote, rentRet, ret, csvRet, csv, dirExists, file, shown>>

\* line 180
AskChildren(a) ==
    /\ mode = "main" /\ pc = "ask_children"
    /\ LET r == pergunta_sim_nao(a)
       IN  /\ lastAnswer' = Heard(pc, a, r.taken)
           /\ IF r.taken = "invalid" THEN UNCHANGED <<pc, inp>>
              ELSE /\ inp' = [inp EXCEPT !.has_children = r.v]
                   /\ pc' = "ask_installments"
    /\ UNCHANGED <<mode, quote, rentRet, ret, csvRet, csv, dirExists, file, shown>>

\* line 182
AskInstallments(a) ==
    /\ mode = "main" /\ pc = "ask_installments"
    /\ LET r == le_inteiro(a, 1, Some(1), Some(5))
       IN  /\ lastAnswer' = Heard(pc, a, r.taken)
           /\ IF r.taken = "invalid" THEN UNCHANGED <<pc, inp>>
              ELSE /\ inp' = [inp EXCEPT !.contract_installments = r.v]
                   /\ pc' = "main_construct"
    /\ UNCHANGED <<mode, quote, rentRet, ret, csvRet, csv, dirExists, file, shown>>

Ask(a) ==
    \/ AskTipo(a)
    \/ AskBedrooms(a)
    \/ AskGarage(a)
    \/ AskParking(a)
    \/ AskExtra(a)
    \/ AskChildren(a)
    \/ AskInstallments(a)

\* lines 184-192: quote = RentalQuote(...)
MainConstruct ==
    /\ mode = "main" /\ pc = "main_construct"
    /\ quote' = [property_type |-> inp.tipo, bedrooms |-> inp.bedrooms, garage |-> inp.garage,
                 studio_base_parking |-> inp.studio_base_parking,
                 studio_extra_vagas |-> inp.studio_extra_vagas,
                 has_children |-> inp.has_children,
                 contract_installments |-> inp.contract_installments]
    /\ pc' = "main_compute"
    /\ UNCHANGED <<mode, rentRet, ret, csvRet, csv, dirExists, file,
                   inp, lastAnswer, shown>>

\* lines 194-195: mensal and parcela_contrato
MainCompute ==
    /\ mode = "main" /\ pc = "main_compute"
    /\ rentRet' = compute_monthly_rent(quote)
    /\ ret' = IF rentRet'.status = "ok"
              THEN Returned("contract_installment_value", contract_installment_value(quote))
              ELSE ret
    /\ pc' = IF rentRet'.status = "ok" THEN "main_print" ELSE "main_aborted"
    /\ UNCHANGED <<mode, quote, csvRet, csv, dirExists, file, inp, lastAnswer, shown>>

\* lines 197-202: the summary
MainPrint ==
    /\ mode = "main" /\ pc = "main_print"
    /\ shown' = [printed |-> TRUE,
                 mensal |-> Fmt2(rentRet.val),
                 parcelas |-> quote.contract_installments,
                 parcela |-> Fmt2(ret.val),
                 meses |-> quote.contract_installments]
    /\ pc' = "main_to_csv"
    /\ UNCHANGED <<mode, quote, rentRet, ret, csvRet, csv, dirExists, file,
                   inp, lastAnswer>>

\* lines 205-206
MainFinish ==
    /\ mode = "main" /\ pc = "main_print_path"
    /\ pc' = "main_done"
    /\ UNCHANGED <<mode, quote, rentRet, ret, csvRet, csv, dirExists, file,
                   inp, lastAnswer, shown>>

main ==
    \/ \E a \in Answers : Ask(a)
    \/ MainConstruct
    \/ MainCompute
    \/ MainPrint
    \/ MainFinish

MainNext ==
    \/ main
    \/ to_csv

\* A prompt that is answered again and again is at some point answered with
\* a line it accepts (the hypothesis of the claim about the prompt loop), and
\* the program, once the last answer is in, goes on to the constructor.
ValidAnswer == \E a \in Answers : Ask(a) /\ lastAnswer'.taken # "invalid"

MainSpec ==
    MainInit /\ [][MainNext]_vars /\ WF_vars(ValidAnswer) /\ WF_vars(MainConstruct)

(***************************************************************************)
(* Vocabulary of the properties.                                           *)
(***************************************************************************)
KnownTypes == {"apartamento", "casa", "estudio"}
\* The type a property_type string denotes: the program matches it without
\* regard to case.
IsApartment(q) == q.property_type \in {"apartamento", "APARTAMENTO"}
IsHouse(q) == q.property_type \in {"casa", "Casa"}
IsStudio(q) == q.property_type \in {"estudio"}
IsKnown(q) == IsApartment(q) \/ IsHouse(q) \/ IsStudio(q)

\* clamp(contract_installments, 1, 5)
Clamped(q) ==
    IF q.contract_installments < 1 THEN 1
    ELSE IF q.contract_installments > 5 THEN 5
    ELSE q.contract_installments

\* The amount a two-decimal cell shows, in centavos.
CellCents(c) == (IF c.neg THEN -1 ELSE 1) * (100 * c.whole + 10 * c.d1 + c.d2)
IsMoneyCell(c) == c.tag = "dec" /\ c.whole >= 0 /\ c.d1 \in 0 .. 9 /\ c.d2 \in 0 .. 9

\* The sum of the additions the pricing rules name, before any discount.
RuleSum(q) ==
    (IF IsApartment(q) THEN 70000 ELSE IF IsHouse(q) THEN 90000 ELSE 120000)
    + (IF IsApartment(q) /\ q.bedrooms = 2 THEN 20000 ELSE 0)
    + (IF IsHouse(q) /\ q.bedrooms = 2 THEN 25000 ELSE 0)
    + (IF (IsApartment(q) \/ IsHouse(q)) /\ q.garage THEN 30000 ELSE 0)
    + (IF IsStudio(q) /\ q.studio_base_parking THEN 25000 + 6000 * q.studio_extra_vagas ELSE 0)

\* The file holds the header and the twelve rows of months 1..12, every
\* amount with two decimals.
CompleteFile ==
    /\ file.exists
    /\ Len(file.rows) = 13
    /\ file.rows[1] = Header
    /\ \A m \in 1 .. 12 :
         LET row == file.rows[m + 1]
         IN  /\ Len(row) = 4
             /\ row[1] = IntCell(m)
             /\ IsMoneyCell(row[2]) /\ IsMoneyCell(row[3]) /\ IsMoneyCell(row[4])

\* The file as it may be before to_csv first touches it.
Untouched == file = NoFile \/ file = StaleFile

\* C1: for a known type, bedrooms in {1,2} and extra spaces >= 0, a call of
\* compute_monthly_rent returns base + additions, times 0.95 (after all the
\* additions) only for an apartment without children; with the three worked
\* examples 665.00, 1510.00 and 1450.00.
C1_RentFormula ==
    (/\ rentRet.status # "none"
     /\ quote.property_type \in KnownTypes
     /\ quote.bedrooms \in {1, 2}
     /\ quote.studio_extra_vagas >= 0)
    => /\ rentRet.status = "ok"
       /\ IF IsApartment(quote) /\ ~quote.has_children
          THEN 100 * rentRet.val = 95 * RuleSum(quote)
          ELSE rentRet.val = RuleSum(quote)
       /\ (/\ IsApartment(quote) /\ quote.bedrooms = 1
           /\ ~quote.garage /\ ~quote.has_children) => rentRet.val = 66500
       /\ (/\ IsStudio(quote) /\ quote.studio_base_parking
           /\ quote.studio_extra_vagas = 1) => rentRet.val = 151000
       /\ (IsHouse(quote) /\ quote.bedrooms = 2 /\ quote.garage) => rentRet.val = 145000

C1_Witness ==
    /\ rentRet = Ok(114000)
    /\ quote.property_type = "apartamento" /\ quote.bedrooms = 2
    /\ quote.garage /\ ~quote.has_children

\* C2: contract_installment_value never fails, whatever the integer
\* contract_installments: it returns 2000.00 / clamp(n, 1, 5) rounded to the
\* centavo, one of 2000.00, 1000.00, 666.67, 500.00, 400.00; 3 gives 666.67,
\* 7 gives 400.00 and anything <= 0 gives 2000.00.
C2_Installment ==
    ret.op = "contract_installment_value"
    => /\ ret.status = "ok"
       /\ ret.val \in {200000, 100000, 66667, 50000, 40000}
       /\ 2 * Abs(Clamped(quote) * ret.val - 200000) <= Clamped(quote)
       /\ quote.contract_installments = 3 => ret.val = 66667
       /\ quote.contract_installments = 7 => ret.val = 40000
       /\ quote.contract_installments <= 0 => ret.val = 200000

C2_Witness ==
    /\ ret = Returned("contract_installment_value", Ok(40000))
    /\ quote.contract_installments = 7

\* C3: after a successful to_csv the file holds the header and exactly 12
\* rows, months 1..12 in order; in row m the rent is compute_monthly_rent(),
\* the contract portion is contract_installment_value() when m <= clamp(n)
\* and 0.00 otherwise, and the total is their sum; so month 1 carries a
\* non-zero portion and months 6..12 carry 0.00.
C3_Schedule ==
    (csvRet.status = "ok" /\ pc \in {"ready", "main_print_path", "main_done"})
    => /\ CompleteFile
       /\ \A m \in 1 .. 12 :
            LET row == file.rows[m + 1]
            IN  /\ row[1].whole = m /\ row[1].tag = "int"
                /\ row[2] = Fmt2(compute_monthly_rent(quote).val)
                /\ CellCents(row[3]) =
                       (IF m <= Clamped(quote)
                        THEN contract_installment_value(quote).val ELSE 0)
                /\ CellCents(row[4]) = CellCents(row[2]) + CellCents(row[3])
                /\ m = 1 => CellCents(row[3]) > 0
                /\ m >= 6 => CellCents(row[3]) = 0

C3_Witness ==
    /\ csvRet.status = "ok" /\ pc = "ready"
    /\ quote.contract_installments = 3
    /\ Len(file.rows) = 13
    /\ CellCents(file.rows[4][3]) = 66667
    /\ CellCents(file.rows[5][3]) = 0

\* The row of month m the schedule is to hold for the quote q.
ExpectedRow(q, m) ==
    LET rent == compute_monthly_rent(q).val
        part == IF m <= Clamped(q) THEN contract_installment_value(q).val ELSE 0
    IN  <<IntCell(m), Fmt2(rent), Fmt2(part), Fmt2(rent + part)>>

\* The rows of the file are the first rows of the complete output.
LeadingPart ==
    /\ Len(file.rows) <= 13
    /\ \A i \in 1 .. Len(file.rows) :
         file.rows[i] = (IF i = 1 THEN Header ELSE ExpectedRow(quote, i - 1))

\* C4 as stated: once a call of to_csv has ended, by returning or by raising
\* at any step, the file holds the header and all 12 rows or no output was
\* produced at all.
C4_NoPartialFile ==
    (pc \in {"ready", "main_aborted", "main_done"} /\ csvRet.status # "none")
    => (CompleteFile \/ Untouched)

\* C4 as amended: to_csv writes row by row.  A call that returns leaves the
\* header and all 12 rows, and a step that raises leaves the file as that
\* step found it: untouched if the error comes before the file is opened,
\* but after the open the leading part written so far (nothing, the header
\* alone, or the header and fewer than 12 rows).
C4_State ==
    /\ csvRet.status = "ok" => CompleteFile
    /\ ~Untouched => (file.exists /\ LeadingPart)
    /\ (pc \in {"csv_makedirs", "csv_open"} /\ csvRet.status = "none") =>
           (Untouched \/ CompleteFile \/ LeadingPart)
    /\ pc = "csv_header" => file = Truncated
    /\ pc = "csv_row" => Len(file.rows) = csv.m

C4_Step ==
    /\ pc \in {"ready", "main_to_csv", "csv_makedirs"} => file' = file
    /\ csvRet'.status \notin {"none", "ok"} => file' = file

\* C4 as amended, in full: C4_State holds in every state and C4_Step of every
\* step: a failure before the open leaves the file untouched, a return leaves
\* it complete, a failure after the open leaves the leading part written.
C4_PartialFileIsLeadingPart == [](C4_State) /\ [][C4_Step]_vars

C4_Witness ==
    /\ pc = "ready" /\ csvRet.status = "OSError"
    /\ file.exists /\ Len(file.rows) = 5 /\ file.rows[1] = Header

\* C5: with a property type that is none of the three known ones, base_rent,
\* compute_monthly_rent and to_csv all end in the unknown-type error, and
\* to_csv raises it before it creates the directory, opens or truncates the
\* file, or writes a row.
C5_State ==
    (quote # NoQuote /\ ~IsKnown(quote))
    => /\ ret.op \in {"base_rent", "total_monthly_with_contract"} => ret.status = "ValueError"
       /\ rentRet.status \in {"none", "ValueError"}
       /\ csvRet.status \in {"none", "ValueError"}
       /\ pc = "ready"
       /\ csv = NoCsv
       /\ Untouched

C5_Step ==
    (quote # NoQuote /\ ~IsKnown(quote)) => (dirExists' = dirExists /\ file' = file)

\* C5 in full: with an unknown type C5_State holds in every state (every
\* method ends in the error, to_csv never gets past its first statement) and
\* C5_Step of every step (neither the directory nor the file changes).
C5_UnknownType == [](C5_State) /\ [][C5_Step]_vars

C5_Witness ==
    /\ quote.property_type = "loft"
    /\ ret = Returned("base_rent", Raise("ValueError"))
    /\ rentRet.status = "ValueError"
    /\ csvRet.status = "ValueError"
    /\ ~dirExists /\ file = NoFile

\* The configurations that differ from q only in fields that are irrelevant
\* to q's property type.
IrrelevantVariants(q) ==
    IF IsApartment(q)
    THEN {[q EXCEPT !.studio_base_parking = p, !.studio_extra_vagas = e] :
              p \in BOOLEAN, e \in ExtraVals}
    ELSE IF IsHouse(q)
    THEN {[q EXCEPT !.has_children = h, !.studio_base_parking = p, !.studio_extra_vagas = e] :
              h \in BOOLEAN, p \in BOOLEAN, e \in ExtraVals}
    ELSE IF IsStudio(q)
    THEN {[q EXCEPT !.has_children = h, !.bedrooms = b, !.garage = g,
                    !.studio_extra_vagas = (IF q.studio_base_parking THEN @ ELSE e)] :
              h \in BOOLEAN, b \in 1 .. MaxBedrooms, g \in BOOLEAN, e \in ExtraVals}
    ELSE {q}

\* C6: fields irrelevant to the property type have no effect on the rent and
\* are never rejected: has_children for a house or studio, bedrooms and garage
\* for a studio, the studio parking fields for an apartment or house, and the
\* extra spaces of a studio without the parking package.
C6_IrrelevantFields ==
    (rentRet.status # "none" /\ IsKnown(quote))
    => /\ rentRet.status = "ok"
       /\ \A q2 \in IrrelevantVariants(quote) : compute_monthly_rent(q2) = rentRet

C6_Witness ==
    /\ rentRet = Ok(90000)
    /\ quote.property_type = "casa" /\ quote.bedrooms = 1 /\ ~quote.garage
    /\ ~quote.has_children /\ quote.studio_base_parking /\ quote.studio_extra_vagas = 2

\* C7: compute_monthly_rent is deterministic and non-negative: every call on
\* the same object, with calls of the other methods and of to_csv in between,
\* gives the result of the calls before it (the calls to_csv and
\* total_monthly_with_contract make included), the
\* result is >= 0, and no call changes a field of the configuration.
C7_State ==
    /\ rentRet.status = "ok" => rentRet.val >= 0
    /\ (rentRet.status = "ok" /\ pc \in {"csv_makedirs", "csv_open", "csv_header", "csv_row"})
           => csv.mensalidade = rentRet.val
    /\ (rentRet.status # "none" /\ ret.op = "total_monthly_with_contract")
           => rentRet.status = ret.status
    /\ (rentRet.status # "none" /\ csvRet.status = "ValueError")
           => rentRet.status = "ValueError"

C7_Step ==
    /\ rentRet.status # "none" => rentRet' = rentRet
    /\ quote' = quote

\* C7 in full: C7_State holds in every state (the result is >= 0 and agrees
\* with the nested calls) and C7_Step of every step (a later call repeats the
\* earlier result, and no step changes the configuration).
C7_Deterministic == [](C7_State) /\ [][C7_Step]_vars

C7_Witness ==
    /\ pc = "ready"
    /\ rentRet = Ok(66500) /\ csvRet.status = "ok"
    /\ ret = Returned("total_monthly_with_contract", Ok(266500))
    /\ CellCents(file.rows[2][2]) = 66500

RECURSIVE SumPortions(_, _)
\* The contract portions of the first k data rows, added up.
SumPortions(rows, k) ==
    IF k = 0 THEN 0 ELSE CellCents(rows[k + 1][3]) + SumPortions(rows, k - 1)

\* C9 as stated: the contract portions of the 12 rows a successful to_csv
\* wrote add up to exactly the fee of 2000.00.
C9_PortionsSumToFee ==
    (csvRet.status = "ok" /\ pc = "ready") => SumPortions(file.rows, 12) = 200000

\* C9 as amended: they add up to clamp(n) * round(2000.00 / clamp(n), 2),
\* which is exactly 2000.00 for 1, 2, 4 and 5 installments and 2000.01 for 3
\* (3 x 666.67): one centavo more than the fee.
C9_PortionsSumWithinCentavo ==
    (csvRet.status = "ok" /\ pc = "ready")
    => SumPortions(file.rows, 12) = (IF Clamped(quote) = 3 THEN 200001 ELSE 200000)

C9_Witness ==
    /\ csvRet.status = "ok" /\ pc = "ready"
    /\ quote.contract_installments = 3
    /\ SumPortions(file.rows, 12) = 200001

\* The prompts of main, and the lines each of them does not accept.
Prompts ==
    {"ask_tipo", "ask_bedrooms", "ask_garage", "ask_parking", "ask_extra", "ask_children",
     "ask_installments"}
YesNoWords == {"s", "sim", "n", "nao", "não", "S", "Sim", "N"}
InvalidLine(h) ==
    LET blank == ~h.isInt /\ h.txt = ""
    IN  CASE h.prompt = "ask_tipo" -> ~(h.isInt /\ h.val \in {1, 2, 3})
          [] h.prompt \in {"ask_garage", "ask_parking", "ask_children"} ->
                 ~(~h.isInt /\ h.txt \in YesNoWords)
          [] h.prompt = "ask_bedrooms" -> ~blank /\ ~(h.isInt /\ h.val \in 1 .. 2)
          [] h.prompt = "ask_extra" -> ~blank /\ ~(h.isInt /\ h.val >= 0)
          [] h.prompt = "ask_installments" -> ~blank /\ ~(h.isInt /\ h.val \in 1 .. 5)
          [] OTHER -> FALSE

\* C8: at a prompt of main an invalid line (unknown choice, text that is no
\* integer, an integer out of range) does not end the run or raise: the same
\* prompt is asked again, and main moves on only after a valid line (or an
\* empty one at an integer prompt).  So every quote main constructs has a
\* known type, bedrooms in {1,2}, extra spaces >= 0 and 1..5 installments,
\* and if valid lines keep coming the run reaches the construction.
C8_State ==
    /\ pc \in Prompts => quote = NoQuote
    /\ quote # NoQuote =>
           /\ quote.property_type \in KnownTypes
           /\ quote.bedrooms \in {1, 2}
           /\ quote.studio_extra_vagas >= 0
           /\ quote.contract_installments \in 1 .. 5

C8_Step ==
    /\ lastAnswer' # lastAnswer =>
           /\ pc \in Prompts
           /\ lastAnswer'.prompt = pc
           /\ IF InvalidLine(lastAnswer')
              THEN pc' = pc /\ inp' = inp /\ quote' = quote
              ELSE pc' # pc
    /\ (pc \in Prompts /\ pc' # pc) =>
           /\ lastAnswer'.prompt = pc
           /\ ~InvalidLine(lastAnswer')
           /\ pc' \in Prompts \cup {"main_construct"}

\* C8 in full: C8_State holds in every state (a constructed quote is valid),
\* C8_Step of every step (an invalid line keeps the prompt, only a valid one
\* moves on), and the quote is eventually constructed.
C8_PromptLoop == [](C8_State) /\ [][C8_Step]_vars /\ <>(quote # NoQuote)

C8_Witness ==
    /\ pc = "ask_installments"
    /\ lastAnswer.prompt = "ask_installments" /\ lastAnswer.taken = "invalid"
    /\ lastAnswer.isInt /\ lastAnswer.val = 6
    /\ inp.tipo = "estudio" /\ inp.studio_extra_vagas = 2

\* C10: when a run of main has completed, the summary it printed agrees with
\* the file it wrote: the monthly rent shown is the rent of all 12 rows, the
\* installment value shown is the contract portion of every row that has
\* one, and the number of installments shown (announced for the first N
\* months) is the number of rows that have one, the first N.
C10_SummaryAgreesWithFile ==
    pc = "main_done"
    => /\ shown.printed
       /\ CompleteFile
       /\ \A m \in 1 .. 12 :
            LET row == file.rows[m + 1]
            IN  /\ row[2] = shown.mensal
                /\ CellCents(row[3]) # 0 => row[3] = shown.parcela
                /\ CellCents(row[3]) # 0 <=> m <= shown.meses
       /\ Cardinality({m \in 1 .. 12 : CellCents(file.rows[m + 1][3]) # 0}) = shown.parcelas

C10_Witness ==
    /\ pc = "main_done"
    /\ shown.parcelas = 3 /\ shown.parcela = Fmt2(66667) /\ shown.mensal = Fmt2(66500)
    /\ Len(file.rows) = 13

====
